---- MODULE Spec2Model ----
(***************************************************************************)
(* Model of advanced-vector/vector.h: RawMemory<T> (a block of raw slots)  *)
(* and Vector<T> (a RawMemory plus the count of live leading slots).       *)
(*                                                                         *)
(* A slot of a block is Raw (no object) or holds a live object, written as *)
(* the object's value.  An object that was moved from is still live and    *)
(* holds MovedFrom.  Indices are 0-based as in the source; the sequences   *)
(* that hold the slots are 1-based, so slot i is element i + 1.            *)
(*                                                                         *)
(* Every operation takes the input f: the element type throws on the f-th  *)
(* of the constructions and assignments of that call which are able to     *)
(* throw (f = 0: nothing throws).  Destructors never throw.  Moves never   *)
(* throw when nothrow_move holds and are able to throw otherwise.          *)
(***************************************************************************)
EXTENDS Integers, Sequences, FiniteSets

MaxCap == 4

Vecs == {"a", "b"}
Values == {0, 1}
DefaultValue == 0
Raw == -1
MovedFrom == -2
NullBuffer == 0
BlockIds == 1..(Cardinality(Vecs) + 1)
NoIndex == -1

VARIABLES heap, data_, size_, alive, nothrow_move, last, log

vars == <<heap, data_, size_, alive, nothrow_move, last, log>>

(***************************************************************************)
(* RawMemory                                                               *)
(***************************************************************************)
EmptyRawMemory == [buffer_ |-> NullBuffer, capacity_ |-> 0]

FreeBlock(h) == CHOOSE b \in BlockIds : h[b] = <<>> /\ \A c \in BlockIds : h[c] = <<>> => b <= c

Allocate(h, n) ==
    IF n # 0
    THEN LET b == FreeBlock(h)
         IN  [heap |-> [h EXCEPT ![b] = [i \in 1..n |-> Raw]], buffer_ |-> b]
    ELSE [heap |-> h, buffer_ |-> NullBuffer]

LiveCount(h, b) ==
    IF b = NullBuffer THEN 0 ELSE Cardinality({i \in 1..Len(h[b]) : h[b][i] # Raw})

Deallocate(h, b) == IF b = NullBuffer THEN h ELSE [h EXCEPT ![b] = <<>>]

NewRawMemory(h, capacity) ==
    LET a == Allocate(h, capacity)
    IN  [heap |-> a.heap, mem |-> [buffer_ |-> a.buffer_, capacity_ |-> capacity]]

(***************************************************************************)
(* Placement construction, destruction and the <memory> algorithms         *)
(***************************************************************************)
\* Slots from, from + 1, ... of block b get the values of the sequence vals.
SetSlots(h, b, from, vals) ==
    IF Len(vals) = 0 \/ b = NullBuffer THEN h
    ELSE [h EXCEPT ![b] = [j \in 1..Len(h[b]) |->
             IF j - 1 >= from /\ j - 1 < from + Len(vals) THEN vals[j - from] ELSE h[b][j]]]

ConstructAt(h, b, i, x) == SetSlots(h, b, i, <<x>>)

DestroyN(h, b, from, n) == SetSlots(h, b, from, [i \in 1..n |-> Raw])

\* Mutant of UninitializedCopyN: the last element is not copied.
UninitializedCopyNShort(h, src, sfrom, n, dst, dfrom) ==
    SetSlots(h, dst, dfrom, [i \in 1..(n - 1) |-> h[src][sfrom + i]])

UninitializedCopyN(h, src, sfrom, n, dst, dfrom) ==
    SetSlots(h, dst, dfrom, [i \in 1..n |-> h[src][sfrom + i]])

UninitializedMoveN(h, src, sfrom, n, dst, dfrom) ==
    SetSlots(SetSlots(h, dst, dfrom, [i \in 1..n |-> h[src][sfrom + i]]),
             src, sfrom, [i \in 1..n |-> MovedFrom])

UninitializedValueConstructN(h, b, from, n) ==
    SetSlots(h, b, from, [i \in 1..n |-> DefaultValue])

\* The argument x of a construction: a value of Values, or Ref(j), a
\* const T& that refers to element j of the vector's own block b.  Deref is
\* the value the constructor reads through x when it runs on heap h.
Ref(j) == Cardinality(Values) + j
RefIndex(x) == x - Cardinality(Values)
IsRef(x) == RefIndex(x) >= 0
Deref(h, b, x) == IF IsRef(x) THEN h[b][RefIndex(x) + 1] ELSE x

MoveAssignSlot(h, b, dst, src) ==
    [h EXCEPT ![b] = [j \in 1..Len(h[b]) |->
        IF j - 1 = dst THEN h[b][src + 1]
        ELSE IF j - 1 = src THEN MovedFrom ELSE h[b][j]]]

Rem(f, used) == IF f > used THEN f - used ELSE 0

(***************************************************************************)
(* Vector: private helper                                                  *)
(***************************************************************************)
\* The transfer policy of ReplaceOrCopyData: move when the move constructor
\* cannot throw (the element type of the model is copy-constructible).
TransferByMove(nm) == nm

\* Mutant of ReplaceOrCopyData: the elements are moved whatever the policy;
\* when the k-th move throws, the k - 1 elements before it stay moved.
ReplaceOrCopyDataByMove(h, nm, old, ofrom, size, new, nfrom, k) ==
    IF ~nm /\ k >= 1 /\ k <= size
    THEN [threw |-> TRUE, heap |-> UninitializedMoveN(h, old, ofrom, k - 1, new, nfrom),
          destroyed |-> 0]
    ELSE [threw |-> FALSE,
          heap |-> DestroyN(UninitializedMoveN(h, old, ofrom, size, new, nfrom), old, ofrom, size),
          destroyed |-> size]

\* Mutant of ReplaceOrCopyData: the originals are not destroyed.
ReplaceOrCopyDataKeepOld(h, nm, old, ofrom, size, new, nfrom, k) ==
    [threw |-> FALSE, heap |-> UninitializedCopyN(h, old, ofrom, size, new, nfrom),
     destroyed |-> 0]

\* k: the k-th copy throws (0, or k > size: none does).  A throwing
\* uninitialized_copy_n destroys what it constructed and leaves both ranges
\* as they were; the destroy_n of the originals is then not reached.
ReplaceOrCopyData(h, nm, old, ofrom, size, new, nfrom, k) ==
    IF TransferByMove(nm)
    THEN [threw |-> FALSE,
          heap |-> DestroyN(UninitializedMoveN(h, old, ofrom, size, new, nfrom), old, ofrom, size),
          destroyed |-> size]
    ELSE IF k >= 1 /\ k <= size
    THEN [threw |-> TRUE, heap |-> h, destroyed |-> 0]
    ELSE [threw |-> FALSE,
          heap |-> DestroyN(UninitializedCopyN(h, old, ofrom, size, new, nfrom), old, ofrom, size),
          destroyed |-> size]

\* Number of transfers of ReplaceOrCopyData that are able to throw.
TransferSteps(nm, size) == IF TransferByMove(nm) THEN 0 ELSE size

(***************************************************************************)
(* Vector: the operations as functions of the heap h, the vector's data_   *)
(* d and size_ s.  Each yields the new heap, data_ and size_, whether the  *)
(* call threw to its caller, whether an element or the allocation threw    *)
(* inside it and at which stage ("alloc": operator new, "construct": the   *)
(* new element, "transfer": ReplaceOrCopyData, "none": elsewhere or not at *)
(* all), the index of the returned position or reference (NoIndex for void *)
(* or a throw), the number of the objects of the vector's block before the *)
(* call that it destroyed, and the number of live objects it lost (objects *)
(* in a block at its release, or overwritten by a construction).           *)
(***************************************************************************)
Outcome(h, d, s, threw, ret, destroyed, leaked) ==
    [heap |-> h, data |-> d, size |-> s, threw |-> threw, fault |-> threw, stage |-> "none",
     ret |-> ret, destroyed |-> destroyed, leaked |-> leaked]

\* Mutant of GrowCapacity: room for one more element.
GrowCapacityByOne(s) == s + 1

GrowCapacity(s) == IF s = 0 THEN 1 ELSE s * 2

SlotLive(h, b, i) == b # NullBuffer /\ i >= 0 /\ i < Len(h[b]) /\ h[b][i + 1] # Raw

Overwritten(h, b, i) == IF SlotLive(h, b, i) THEN 1 ELSE 0

EmplaceBack(h, nm, d, s, x, f) ==
    IF s = d.capacity_
    THEN LET nd == NewRawMemory(h, GrowCapacity(s))
             nb == nd.mem.buffer_
         IN  IF f = 1
             THEN [Outcome(Deallocate(nd.heap, nb), d, s, TRUE, NoIndex, 0, 0)
                      EXCEPT !.stage = "construct"]
             ELSE LET h1 == ConstructAt(nd.heap, nb, s, Deref(nd.heap, d.buffer_, x))
                      r  == ReplaceOrCopyData(h1, nm, d.buffer_, 0, s, nb, 0, Rem(f, 1))
                  IN  IF r.threw
                      THEN [Outcome(Deallocate(r.heap, nb), d, s, TRUE, NoIndex,
                                    r.destroyed, LiveCount(r.heap, nb))
                               EXCEPT !.stage = "transfer"]
                      ELSE Outcome(Deallocate(r.heap, d.buffer_), nd.mem, s + 1, FALSE, s,
                                   r.destroyed, LiveCount(r.heap, d.buffer_))
    ELSE IF f = 1
         THEN [Outcome(h, d, s, TRUE, NoIndex, 0, 0) EXCEPT !.stage = "construct"]
         ELSE Outcome(ConstructAt(h, d.buffer_, s, Deref(h, d.buffer_, x)), d, s + 1, FALSE, s, 0,
                      Overwritten(h, d.buffer_, s))

\* Mutant of PopBack: the count is decremented, the object is not destroyed.
PopBackNoDestroy(h, d, s) == Outcome(h, d, s - 1, FALSE, NoIndex, 0, 0)

PopBack(h, d, s) ==
    Outcome(DestroyN(h, d.buffer_, s - 1, 1), d, s - 1, FALSE, NoIndex, 1, 0)

\* Mutant of MoveForward: the shift is left out.
MoveForwardNone(h, b, first, lst, d_first, n) == h

RECURSIVE MoveForward(_, _, _, _, _, _)
\* std::move within block b: the first n assignments, from the left.
MoveForward(h, b, first, lst, d_first, n) ==
    IF n = 0 \/ first >= lst THEN h
    ELSE MoveForward(MoveAssignSlot(h, b, d_first, first), b, first + 1, lst, d_first + 1, n - 1)

\* Mutant of MoveBackward: the range is moved from the left, so that each
\* assignment overwrites the element the next one reads.
MoveBackwardFromLeft(h, b, first, lst, d_last, n) ==
    MoveForward(h, b, first, lst, d_last - (lst - first), n)

RECURSIVE MoveBackward(_, _, _, _, _, _)
\* std::move_backward within block b: the first n assignments, from the right.
MoveBackward(h, b, first, lst, d_last, n) ==
    IF n = 0 \/ first >= lst THEN h
    ELSE MoveBackward(MoveAssignSlot(h, b, d_last - 1, lst - 1), b, first, lst - 1, d_last - 1, n - 1)

\* The index of the move that throws, among the moves of a call: none when
\* moves cannot throw.
MoveFault(nm, k) == IF nm THEN 0 ELSE k

\* Mutant of EmplaceInPlace: no temporary is made; the argument is read when
\* it is assigned to the target slot, after the shift.
EmplaceInPlaceNoTemp(h, nm, d, s, index, x, f) ==
    LET b       == d.buffer_
        last_el == s - 1
        cnt     == last_el - index
        k       == MoveFault(nm, Rem(f, 1))
        h1      == MoveAssignSlot(h, b, s, last_el)
        kk      == Rem(k, 1)
        lost    == Overwritten(h, b, s)
    IN  IF f = 1 \/ k = 1
        THEN Outcome(h, d, s, TRUE, NoIndex, 0, 0)
        ELSE IF kk >= 1 /\ kk <= cnt
        THEN Outcome(MoveBackward(h1, b, index, last_el, s, kk - 1), d, s, TRUE, NoIndex, 0, lost)
        ELSE LET h2 == MoveBackward(h1, b, index, last_el, s, cnt)
             IN  IF kk = cnt + 1
                 THEN Outcome(h2, d, s, TRUE, NoIndex, 0, lost)
                 ELSE Outcome(ConstructAt(h2, b, index, Deref(h2, b, x)), d, s + 1, FALSE, index, 0, lost)

EmplaceInPlace(h, nm, d, s, index, x, f) ==
    LET b       == d.buffer_
        last_el == s - 1
        cnt     == last_el - index
        k       == MoveFault(nm, Rem(f, 1))
        h1      == MoveAssignSlot(h, b, s, last_el)
        kk      == Rem(k, 1)
        lost    == Overwritten(h, b, s)
        temp_obj == Deref(h, b, x)
    IN  IF f = 1 \/ k = 1
        THEN Outcome(h, d, s, TRUE, NoIndex, 0, 0)
        ELSE IF kk >= 1 /\ kk <= cnt
        THEN Outcome(MoveBackward(h1, b, index, last_el, s, kk - 1), d, s, TRUE, NoIndex, 0, lost)
        ELSE LET h2 == MoveBackward(h1, b, index, last_el, s, cnt)
             IN  IF kk = cnt + 1
                 THEN Outcome(h2, d, s, TRUE, NoIndex, 0, lost)
                 ELSE Outcome(ConstructAt(h2, b, index, temp_obj), d, s + 1, FALSE, index, 0, lost)

EmplaceGrow(h, nm, d, s, index, x, f) ==
    LET nd == NewRawMemory(h, GrowCapacity(s))
        nb == nd.mem.buffer_
    IN  IF f = 1
        THEN Outcome(Deallocate(nd.heap, nb), d, s, TRUE, NoIndex, 0, 0)
        ELSE LET h1 == ConstructAt(nd.heap, nb, index, Deref(nd.heap, d.buffer_, x))
                 r1 == ReplaceOrCopyData(h1, nm, d.buffer_, 0, index, nb, 0, Rem(f, 1))
             IN  IF r1.threw
                 THEN \* catch: new_data[index].~T(); throw;
                      LET h2 == DestroyN(r1.heap, nb, index, 1)
                      IN  Outcome(Deallocate(h2, nb), d, s, TRUE, NoIndex, 0, LiveCount(h2, nb))
                 ELSE LET r2 == ReplaceOrCopyData(r1.heap, nm, d.buffer_, index, s - index,
                                                  nb, index + 1,
                                                  Rem(f, 1 + TransferSteps(nm, index)))
                          \* catch: destroy_n(new_data, index + 1); no rethrow
                          h3 == IF r2.threw THEN DestroyN(r2.heap, nb, 0, index + 1)
                                ELSE r2.heap
                      IN  [Outcome(Deallocate(h3, d.buffer_), nd.mem, s + 1, FALSE, index,
                                   r1.destroyed + r2.destroyed, LiveCount(h3, d.buffer_))
                              EXCEPT !.fault = r2.threw]

\* Mutant of Emplace: the position is ignored, the element is appended.
EmplaceAtEnd(h, nm, d, s, index, x, f) ==
    [EmplaceBack(h, nm, d, s, x, f) EXCEPT !.ret = IF @ = NoIndex THEN @ ELSE index]

Emplace(h, nm, d, s, index, x, f) ==
    IF index = s THEN EmplaceBack(h, nm, d, s, x, f)
    ELSE IF s # d.capacity_ THEN EmplaceInPlace(h, nm, d, s, index, x, f)
    ELSE EmplaceGrow(h, nm, d, s, index, x, f)

\* Mutant of Erase: the end position is not taken to name the last element.
EraseNotAtEnd(h, nm, d, s, index, f) ==
    IF index = s THEN Outcome(h, d, s, FALSE, s, 0, 0)
    ELSE [PopBack(MoveForward(h, d.buffer_, index + 1, s, index, s - 1 - index), d, s)
             EXCEPT !.ret = index]

Erase(h, nm, d, s, index, f) ==
    IF index = s
    THEN [PopBack(h, d, s) EXCEPT !.ret = s - 1]
    ELSE LET cnt == s - 1 - index
             k   == MoveFault(nm, f)
         IN  IF k >= 1 /\ k <= cnt
             THEN Outcome(MoveForward(h, d.buffer_, index + 1, s, index, k - 1), d, s,
                          TRUE, NoIndex, 0, 0)
             ELSE [PopBack(MoveForward(h, d.buffer_, index + 1, s, index, cnt), d, s)
                      EXCEPT !.ret = index]

\* Mutant of Reserve: a block of the capacity asked for is always allocated.
ReserveAlways(h, nm, d, s, new_capacity, f) ==
    LET nd == NewRawMemory(h, new_capacity)
        nb == nd.mem.buffer_
        r  == ReplaceOrCopyData(nd.heap, nm, d.buffer_, 0, s, nb, 0, 0)
    IN  Outcome(Deallocate(r.heap, d.buffer_), nd.mem, s, FALSE, NoIndex, r.destroyed,
                LiveCount(r.heap, d.buffer_))

Reserve(h, nm, d, s, new_capacity, f) ==
    IF new_capacity > d.capacity_
    THEN LET nd == NewRawMemory(h, new_capacity)
             nb == nd.mem.buffer_
             r  == ReplaceOrCopyData(nd.heap, nm, d.buffer_, 0, s, nb, 0, f)
         IN  IF r.threw
             THEN [Outcome(Deallocate(r.heap, nb), d, s, TRUE, NoIndex, r.destroyed,
                           LiveCount(r.heap, nb))
                      EXCEPT !.stage = "transfer"]
             ELSE Outcome(Deallocate(r.heap, d.buffer_), nd.mem, s, FALSE, NoIndex,
                          r.destroyed, LiveCount(r.heap, d.buffer_))
    ELSE Outcome(h, d, s, FALSE, NoIndex, 0, 0)

\* Reserve when operator new throws std::bad_alloc: the RawMemory of line 144
\* is not constructed and nothing after it runs.
ReserveBadAlloc(h, nm, d, s, new_capacity) ==
    IF new_capacity > d.capacity_
    THEN [Outcome(h, d, s, TRUE, NoIndex, 0, 0) EXCEPT !.stage = "alloc"]
    ELSE Outcome(h, d, s, FALSE, NoIndex, 0, 0)

LiveIn(h, b, from, n) ==
    IF b = NullBuffer THEN 0
    ELSE Cardinality({i \in from..(from + n - 1) : SlotLive(h, b, i)})

\* Mutant of Resize: a smaller size is set, the trailing objects are kept.
ResizeKeepTail(h, nm, d, s, new_size, f) ==
    IF new_size <= s
    THEN Outcome(h, d, new_size, FALSE, NoIndex, 0, 0)
    ELSE LET r == Reserve(h, nm, d, s, new_size, 0)
         IN  [r EXCEPT !.heap = UninitializedValueConstructN(r.heap, r.data.buffer_, s,
                                                              new_size - s),
                        !.size = new_size]

Resize(h, nm, d, s, new_size, f) ==
    IF new_size = s
    THEN Outcome(h, d, s, FALSE, NoIndex, 0, 0)
    ELSE IF new_size < s
    THEN Outcome(DestroyN(h, d.buffer_, new_size, s - new_size), d, new_size, FALSE,
                 NoIndex, s - new_size, 0)
    ELSE LET r    == Reserve(h, nm, d, s, new_size, f)
             used == IF new_size > d.capacity_ THEN TransferSteps(nm, s) ELSE 0
             k    == Rem(f, used)
         IN  IF r.threw THEN r
             ELSE IF k >= 1 /\ k <= new_size - s
             THEN [r EXCEPT !.threw = TRUE]
             ELSE [r EXCEPT !.heap = UninitializedValueConstructN(r.heap, r.data.buffer_, s,
                                                                  new_size - s),
                            !.size = new_size,
                            !.leaked = r.leaked + LiveIn(r.heap, r.data.buffer_, s, new_size - s)]

\* Vector(size_t size): the f-th value construction throws (1 <= f <= size);
\* a constructor that throws leaves no container.
VectorSized(h, size, f) ==
    LET nd == NewRawMemory(h, size)
    IN  IF f >= 1 /\ f <= size
        THEN Outcome(Deallocate(nd.heap, nd.mem.buffer_), EmptyRawMemory, 0, TRUE, NoIndex, 0, 0)
        ELSE Outcome(UninitializedValueConstructN(nd.heap, nd.mem.buffer_, 0, size), nd.mem,
                     size, FALSE, NoIndex, 0, 0)

\* RawMemory::Swap, as the pair (this, other) after the call.
RawSwap(this, other) == [this |-> other, other |-> this]

\* RawMemory(RawMemory&&): the new object starts with its default members.
RawMoveConstruct(other) == RawSwap(EmptyRawMemory, other)

\* RawMemory::operator=(RawMemory&&)
RawMoveAssign(this, other) == RawSwap(this, other)

\* ~Vector: destroy_n(data_, size_), then ~RawMemory releases the block.
VectorDestroy(h, d, s) ==
    LET h1 == DestroyN(h, d.buffer_, 0, s)
    IN  Outcome(Deallocate(h1, d.buffer_), EmptyRawMemory, 0, FALSE, NoIndex, s,
                LiveCount(h1, d.buffer_))

\* Mutant of VectorCopy: the new container takes the block of the other.
VectorCopyShared(h, od, os, f) == Outcome(h, od, os, FALSE, NoIndex, 0, 0)

\* Vector(const Vector& other), other holding size os in od: a block of
\* capacity os, then uninitialized_copy_n.  The f-th copy throws
\* (1 <= f <= os): the copies made are destroyed, the block is released, and
\* the constructor leaves no container.
VectorCopy(h, od, os, f) ==
    LET nd == NewRawMemory(h, os)
    IN  IF f >= 1 /\ f <= os
        THEN Outcome(Deallocate(nd.heap, nd.mem.buffer_), EmptyRawMemory, 0, TRUE, NoIndex, 0, 0)
        ELSE Outcome(UninitializedCopyN(nd.heap, od.buffer_, 0, os, nd.mem.buffer_, 0), nd.mem,
                     os, FALSE, NoIndex, 0, 0)

Min(m, n) == IF m < n THEN m ELSE n

\* data_[i] = other.data_[i] for i in [0, n): copy assignments, slot by slot.
CopyAssignSlots(h, src, dst, n) == SetSlots(h, dst, 0, [i \in 1..n |-> h[src][i]])

\* Mutant of CopyAssign: with capacity at hand, the elements beyond the
\* other's size are not destroyed.
CopyAssignKeepExcess(h, d, s, od, os, f) ==
    IF os > d.capacity_
    THEN LET c == VectorCopy(h, od, os, 0)
             t == VectorDestroy(c.heap, d, s)
         IN  Outcome(t.heap, c.data, c.size, FALSE, NoIndex, t.destroyed, t.leaked)
    ELSE Outcome(UninitializedCopyN(CopyAssignSlots(h, od.buffer_, d.buffer_, Min(os, s)),
                                    od.buffer_, s, os - s, d.buffer_, s),
                 d, os, FALSE, NoIndex, 0, 0)

\* operator=(const Vector& other) for this # &other, other holding size os
\* in od.  Without the capacity: Vector new_vector(other), Swap, and
\* new_vector's destructor takes the old elements and block.  With it: the
\* common prefix is copy-assigned, then the rest is copy-constructed or the
\* excess destroyed.  The f-th copy or assignment throws.
CopyAssign(h, d, s, od, os, f) ==
    IF os > d.capacity_
    THEN LET c == VectorCopy(h, od, os, f)
         IN  IF c.threw
             THEN [Outcome(c.heap, d, s, TRUE, NoIndex, 0, 0) EXCEPT !.stage = "construct"]
             ELSE LET t == VectorDestroy(c.heap, d, s)
                  IN  Outcome(t.heap, c.data, c.size, FALSE, NoIndex, t.destroyed, t.leaked)
    ELSE LET size == Min(os, s)
             b    == d.buffer_
             k    == Rem(f, size)
         IN  IF f >= 1 /\ f <= size
             THEN Outcome(CopyAssignSlots(h, od.buffer_, b, f - 1), d, s, TRUE, NoIndex, 0, 0)
             ELSE LET h1 == CopyAssignSlots(h, od.buffer_, b, size)
                  IN  IF os > s
                      THEN IF k >= 1 /\ k <= os - s
                           THEN [Outcome(h1, d, s, TRUE, NoIndex, 0, 0)
                                    EXCEPT !.stage = "construct"]
                           ELSE Outcome(UninitializedCopyN(h1, od.buffer_, s, os - s, b, s),
                                        d, os, FALSE, NoIndex, 0, LiveIn(h1, b, s, os - s))
                      ELSE Outcome(DestroyN(h1, b, os, s - os), d, os, FALSE, NoIndex,
                                   s - os, 0)

\* void PushBack(const T&) / PushBack(T&&): EmplaceBack with its result dropped.
PushBack(h, nm, d, s, x, f) == [EmplaceBack(h, nm, d, s, x, f) EXCEPT !.ret = NoIndex]

(***************************************************************************)
(* The state machine: the vectors of Vecs, the heap of blocks they own,    *)
(* and a record of the last call.                                          *)
(***************************************************************************)
MaxHeap == MaxCap + 1

Size(v) == size_[v]
Capacity(v) == data_[v].capacity_

ElemsOf(h, d, s) == IF d.buffer_ = NullBuffer THEN <<>> ELSE [i \in 1..s |-> h[d.buffer_][i]]
Elems(v) == ElemsOf(heap, data_[v], size_[v])

Snapshot ==
    [w \in Vecs |-> [data |-> data_[w], size |-> size_[w], elems |-> Elems(w)]]

\* The calls of the model are those whose behaviour is defined: every slot
\* the vector counts holds an object.
Defined(v) ==
    /\ alive[v]
    /\ \A i \in 0..(size_[v] - 1) : SlotLive(heap, data_[v].buffer_, i)

\* The heap holds MaxHeap slots: a call is made when the vector's capacity
\* after it, and the other vectors' blocks, fit in them.
OthersCapacity(v) == IF \A w \in Vecs : w = v THEN 0
                     ELSE LET w == CHOOSE w \in Vecs : w # v IN Capacity(w)

Fits(v, capacity) == capacity <= MaxCap /\ capacity + OthersCapacity(v) <= MaxHeap

CanGrow(v) == size_[v] = Capacity(v) => Fits(v, GrowCapacity(size_[v]))

Record(op, v, o, index, val, r) ==
    [op |-> op, v |-> v, o |-> o, index |-> index, val |-> val, threw |-> r.threw,
     fault |-> r.fault, stage |-> r.stage, ret |-> r.ret, destroyed |-> r.destroyed, leaked |-> r.leaked, pre |-> Snapshot]

\* log[v]: the values appended to v by PushBack and EmplaceBack calls in
\* which nothing threw, when these are the only calls made on v since it was
\* constructed empty; NoLog after any other call.
NoLog == <<Raw>>

NextLog(op, v, val, r) ==
    IF op = "Vector" THEN <<>>
    ELSE IF op \in {"PushBack", "EmplaceBack"} /\ ~r.fault /\ log[v] # NoLog
    THEN Append(log[v], val)
    ELSE NoLog

\* The call's outcome r becomes the state (q: r, evaluated once).
Apply(op, v, index, val, r) ==
    \E q \in {r} :
        /\ heap' = q.heap
        /\ log' = [log EXCEPT ![v] = NextLog(op, v, val, q)]
        /\ data_' = [data_ EXCEPT ![v] = q.data]
        /\ size_' = [size_ EXCEPT ![v] = q.size]
        /\ last' = Record(op, v, v, index, val, q)
        /\ UNCHANGED nothrow_move

Init ==
    /\ heap = [b \in BlockIds |-> <<>>]
    /\ data_ = [v \in Vecs |-> EmptyRawMemory]
    /\ size_ = [v \in Vecs |-> 0]
    /\ alive = [v \in Vecs |-> FALSE]
    /\ nothrow_move \in BOOLEAN
    /\ log = [v \in Vecs |-> NoLog]
    /\ last = [op |-> "none", v |-> "a", o |-> "a", index |-> NoIndex, val |-> DefaultValue,
               threw |-> FALSE, fault |-> FALSE, stage |-> "none", ret |-> NoIndex,
               destroyed |-> 0, leaked |-> 0,
               pre |-> [w \in Vecs |-> [data |-> EmptyRawMemory, size |-> 0, elems |-> <<>>]]]

CallVector(v) ==
    /\ ~alive[v]
    /\ alive' = [alive EXCEPT ![v] = TRUE]
    /\ Apply("Vector", v, NoIndex, DefaultValue,
             Outcome(heap, EmptyRawMemory, 0, FALSE, NoIndex, 0, 0))

CallVectorSized(v, n, f) ==
    /\ ~alive[v] /\ Fits(v, n)
    /\ \E r \in {VectorSized(heap, n, f)} :
           /\ alive' = [alive EXCEPT ![v] = ~r.threw]
           /\ Apply("VectorSized", v, n, DefaultValue, r)

CallMoveConstruct(v, o) ==
    /\ ~alive[v] /\ alive[o]
    /\ LET m == RawMoveConstruct(data_[o])
       IN  /\ data_' = [data_ EXCEPT ![v] = m.this, ![o] = m.other]
           /\ size_' = [size_ EXCEPT ![v] = size_[o], ![o] = 0]
    /\ alive' = [alive EXCEPT ![v] = TRUE]
    /\ last' = Record("MoveConstruct", v, o, NoIndex, DefaultValue,
                      Outcome(heap, data_[v], 0, FALSE, NoIndex, 0, 0))
    /\ log' = [w \in Vecs |-> IF w \in {v, o} THEN NoLog ELSE log[w]]
    /\ UNCHANGED <<heap, nothrow_move>>

CallMoveAssign(v, o) ==
    /\ alive[v] /\ alive[o]
    /\ IF v # o
       THEN LET m == RawMoveAssign(data_[v], data_[o])
            IN  /\ data_' = [data_ EXCEPT ![v] = m.this, ![o] = m.other]
                /\ size_' = [size_ EXCEPT ![v] = size_[o], ![o] = 0]
       ELSE UNCHANGED <<data_, size_>>
    /\ last' = Record("MoveAssign", v, o, NoIndex, DefaultValue,
                      Outcome(heap, data_[v], 0, FALSE, NoIndex, 0, 0))
    /\ log' = [w \in Vecs |-> IF w \in {v, o} THEN NoLog ELSE log[w]]
    /\ UNCHANGED <<heap, alive, nothrow_move>>

\* The call's outcome r on v, made with the container o as its argument.
ApplyWith(op, v, o, r) ==
    \E q \in {r} :
        /\ heap' = q.heap
        /\ log' = [log EXCEPT ![v] = NoLog]
        /\ data_' = [data_ EXCEPT ![v] = q.data]
        /\ size_' = [size_ EXCEPT ![v] = q.size]
        /\ last' = Record(op, v, o, NoIndex, DefaultValue, q)
        /\ UNCHANGED nothrow_move

CallCopyConstruct(v, o, f) ==
    /\ ~alive[v] /\ Defined(o)
    /\ Fits(v, size_[o])
    /\ \E r \in {VectorCopy(heap, data_[o], size_[o], f)} :
           /\ alive' = [alive EXCEPT ![v] = ~r.threw]
           /\ ApplyWith("CopyConstruct", v, o, r)

CallCopyAssign(v, o, f) ==
    /\ Defined(v) /\ Defined(o)
    /\ size_[o] > Capacity(v) => Fits(v, size_[o])
    /\ IF v # o
       THEN ApplyWith("CopyAssign", v, o,
                      CopyAssign(heap, data_[v], size_[v], data_[o], size_[o], f))
       ELSE ApplyWith("CopyAssign", v, o,
                      Outcome(heap, data_[v], size_[v], FALSE, NoIndex, 0, 0))
    /\ UNCHANGED alive

CallDestroy(v) ==
    /\ Defined(v)
    /\ alive' = [alive EXCEPT ![v] = FALSE]
    /\ Apply("Destroy", v, NoIndex, DefaultValue, VectorDestroy(heap, data_[v], size_[v]))

CallReserve(v, n, f) ==
    /\ Defined(v) /\ Fits(v, n)
    /\ Apply("Reserve", v, n, DefaultValue, Reserve(heap, nothrow_move, data_[v], size_[v], n, f))
    /\ UNCHANGED alive

CallReserveBadAlloc(v, n) ==
    /\ Defined(v) /\ Fits(v, n)
    /\ n > Capacity(v)
    /\ Apply("Reserve", v, n, DefaultValue,
             ReserveBadAlloc(heap, nothrow_move, data_[v], size_[v], n))
    /\ UNCHANGED alive

CallResize(v, n, f) ==
    /\ Defined(v) /\ Fits(v, n)
    /\ Apply("Resize", v, n, DefaultValue, Resize(heap, nothrow_move, data_[v], size_[v], n, f))
    /\ UNCHANGED alive

CallPushBack(v, x, f) ==
    /\ Defined(v) /\ CanGrow(v)
    /\ Apply("PushBack", v, size_[v], x, PushBack(heap, nothrow_move, data_[v], size_[v], x, f))
    /\ UNCHANGED alive

CallEmplaceBack(v, x, f) ==
    /\ Defined(v) /\ CanGrow(v)
    /\ Apply("EmplaceBack", v, size_[v], x,
             EmplaceBack(heap, nothrow_move, data_[v], size_[v], x, f))
    /\ UNCHANGED alive

CallEmplace(v, index, x, f) ==
    /\ Defined(v) /\ CanGrow(v)
    /\ index \in 0..size_[v]
    /\ Apply("Emplace", v, index, x,
             Emplace(heap, nothrow_move, data_[v], size_[v], index, x, f))
    /\ UNCHANGED alive

CallErase(v, index, f) ==
    /\ Defined(v) /\ size_[v] > 0
    /\ index \in 0..size_[v]
    /\ Apply("Erase", v, index, DefaultValue,
             Erase(heap, nothrow_move, data_[v], size_[v], index, f))
    /\ UNCHANGED alive

CallPopBack(v) ==
    /\ Defined(v) /\ size_[v] > 0
    /\ Apply("PopBack", v, NoIndex, DefaultValue, PopBack(heap, data_[v], size_[v]))
    /\ UNCHANGED alive

\* PushBack(const T& value) with value referring to element j of v itself.
CallPushBackSelf(v, j) ==
    /\ Defined(v) /\ CanGrow(v)
    /\ j \in 0..(size_[v] - 1)
    /\ Apply("PushBackSelf", v, size_[v], Ref(j),
             PushBack(heap, nothrow_move, data_[v], size_[v], Ref(j), 0))
    /\ UNCHANGED alive

\* Insert(pos, const T& value) with value referring to element j of v itself.
CallInsertSelf(v, index, j) ==
    /\ Defined(v) /\ CanGrow(v)
    /\ index \in 0..size_[v]
    /\ j \in 0..(size_[v] - 1)
    /\ Apply("InsertSelf", v, index, Ref(j),
             Emplace(heap, nothrow_move, data_[v], size_[v], index, Ref(j), 0))
    /\ UNCHANGED alive

\* The number of constructions and assignments of a call that are able to
\* throw: the faults f in 1..Steps are the ones the call can meet.
EmplaceBackSteps(v) ==
    1 + (IF size_[v] = Capacity(v) THEN TransferSteps(nothrow_move, size_[v]) ELSE 0)

EmplaceSteps(v, index) ==
    IF index = size_[v] THEN EmplaceBackSteps(v)
    ELSE IF size_[v] # Capacity(v)
    THEN 1 + (IF nothrow_move THEN 0 ELSE size_[v] - index + 1)
    ELSE 1 + TransferSteps(nothrow_move, size_[v])

EraseSteps(v, index) ==
    IF nothrow_move \/ index = size_[v] THEN 0 ELSE size_[v] - 1 - index

ReserveSteps(v, n) == IF n > Capacity(v) THEN TransferSteps(nothrow_move, size_[v]) ELSE 0

CopyAssignSteps(v, o) == IF v = o THEN 0 ELSE size_[o]

ResizeSteps(v, n) == IF n > size_[v] THEN ReserveSteps(v, n) + (n - size_[v]) ELSE 0

\* Insert(pos, x) and then Erase at the position it returned, nothing throwing.
CallInsertErase(v, index, x) ==
    /\ Defined(v) /\ CanGrow(v)
    /\ index \in 0..size_[v]
    /\ \E r1 \in {Emplace(heap, nothrow_move, data_[v], size_[v], index, x, 0)} :
       \E r2 \in {Erase(r1.heap, nothrow_move, r1.data, r1.size, r1.ret, 0)} :
           Apply("InsertErase", v, index, x,
                 [r2 EXCEPT !.destroyed = r1.destroyed + r2.destroyed,
                            !.leaked = r1.leaked + r2.leaked])
    /\ UNCHANGED alive

\* One container, the calls in which nothing throws.
Next ==
    \E v \in {"a"} :
        \/ CallVector(v)
        \/ \E n \in 0..MaxCap : CallVectorSized(v, n, 0)
        \/ CallDestroy(v)
        \/ \E n \in 0..MaxCap : CallReserve(v, n, 0)
        \/ \E n \in 0..MaxCap : CallResize(v, n, 0)
        \/ \E x \in Values : CallPushBack(v, x, 0)
        \/ \E x \in Values : CallEmplaceBack(v, x, 0)
        \/ \E i \in 0..size_[v], x \in Values : CallEmplace(v, i, x, 0)
        \/ \E i \in 0..size_[v] : CallErase(v, i, 0)
        \/ CallPopBack(v)
        \/ \E i \in 0..size_[v], x \in Values : CallInsertErase(v, i, x)
        \/ \E j \in 0..(size_[v] - 1) : CallPushBackSelf(v, j)
        \/ \E i \in 0..size_[v], j \in 0..(size_[v] - 1) : CallInsertSelf(v, i, j)

Spec == Init /\ [][Next]_vars

\* One container, every call on it, the element throwing at any step or not
\* at all.
NextThrow ==
    \E v \in {"a"} :
        \/ CallVector(v)
        \/ \E n \in 0..MaxCap : \E f \in 0..n : CallVectorSized(v, n, f)
        \/ CallDestroy(v)
        \/ \E n \in 0..MaxCap : \E f \in 0..ReserveSteps(v, n) : CallReserve(v, n, f)
        \/ \E n \in 0..MaxCap : CallReserveBadAlloc(v, n)
        \/ \E n \in 0..MaxCap : \E f \in 0..ResizeSteps(v, n) : CallResize(v, n, f)
        \/ \E x \in Values : \E f \in 0..EmplaceBackSteps(v) : CallPushBack(v, x, f)
        \/ \E x \in Values : \E f \in 0..EmplaceBackSteps(v) : CallEmplaceBack(v, x, f)
        \/ \E i \in 0..size_[v], x \in Values : \E f \in 0..EmplaceSteps(v, i) :
               CallEmplace(v, i, x, f)
        \/ \E i \in 0..size_[v] : \E f \in 0..EraseSteps(v, i) : CallErase(v, i, f)
        \/ CallPopBack(v)

SpecThrow == Init /\ [][NextThrow]_vars

\* Two containers: built by construction and PushBack, moved into one
\* another, and destroyed.
NextPair ==
    \E v \in Vecs :
        \/ CallVector(v)
        \/ \E x \in Values : CallPushBack(v, x, 0)
        \/ \E o \in Vecs : CallMoveConstruct(v, o)
        \/ \E o \in Vecs : CallMoveAssign(v, o)
        \/ CallDestroy(v)

SpecPair == Init /\ [][NextPair]_vars

\* Two containers: a constructed empty, the other copy-constructed; both
\* changed by PushBack, PopBack, Erase and copy assignment, a copied element
\* throwing or not.
NextCopy ==
    \E v \in Vecs :
        \/ v = "a" /\ CallVector(v)
        \/ \E o \in Vecs \ {v} : \E f \in 0..size_[o] : CallCopyConstruct(v, o, f)
        \/ \E o \in Vecs : \E f \in 0..CopyAssignSteps(v, o) : CallCopyAssign(v, o, f)
        \/ \E x \in Values : CallPushBack(v, x, 0)
        \/ CallPopBack(v)
        \/ \E i \in 0..size_[v] : CallErase(v, i, 0)
        \/ CallDestroy(v)

SpecCopy == Init /\ [][NextCopy]_vars

(***************************************************************************)
(* Properties                                                              *)
(***************************************************************************)
Pre(v) == last.pre[v]
PreSize == Pre(last.v).size
PreCapacity == Pre(last.v).data.capacity_
PreElems == Pre(last.v).elems
PreBuffer == Pre(last.v).data.buffer_

InsertAt(s, i, x) == SubSeq(s, 1, i) \o <<x>> \o SubSeq(s, i + 1, Len(s))
RemoveAt(s, i) == SubSeq(s, 1, i) \o SubSeq(s, i + 2, Len(s))

\* The last call was an Emplace that needed growth, at a position before
\* the end, and an element threw inside it.
EmplaceGrowthFault ==
    /\ last.op = "Emplace"
    /\ PreSize = PreCapacity
    /\ last.index < PreSize
    /\ last.fault

\* C1: when an element throws inside an Emplace with growth (constructing
\* the new element, or transferring a prefix or a suffix element), the
\* container has the size, the capacity and the elements it had before the
\* call, and slots [0, n) of the original block are still live.
C1_EmplaceGrowthStrongGuarantee ==
    EmplaceGrowthFault =>
        /\ Size(last.v) = PreSize
        /\ Capacity(last.v) = PreCapacity
        /\ Elems(last.v) = PreElems
        /\ \A i \in 0..(PreSize - 1) : SlotLive(heap, PreBuffer, i)

\* C2: when an element throws inside an Emplace with growth, the call
\* throws to its caller: it does not return with the size incremented.
C2_EmplaceGrowthFaultSurfaces ==
    EmplaceGrowthFault => last.threw /\ Size(last.v) # PreSize + 1

Valid(v) ==
    /\ 0 <= Size(v) /\ Size(v) <= Capacity(v)
    /\ Capacity(v) > 0 => Len(heap[data_[v].buffer_]) = Capacity(v)
    /\ \A i \in 0..(Capacity(v) - 1) : SlotLive(heap, data_[v].buffer_, i) <=> i < Size(v)

C5_GrowthDoubles ==
    last.op \in {"PushBack", "EmplaceBack", "Emplace"} /\ ~last.fault =>
        IF PreSize = PreCapacity
        THEN Capacity(last.v) = (IF PreCapacity = 0 THEN 1 ELSE 2 * PreCapacity)
        ELSE Capacity(last.v) = PreCapacity

C5_Witness ==
    /\ last.op = "Emplace" /\ ~last.fault
    /\ PreSize = 2 /\ PreCapacity = 2 /\ Capacity(last.v) = 4

\* C6: after a move construction from, or a move assignment of, another
\* container, the source has size 0, capacity 0 and no block, and the
\* target has the source's former size, capacity and elements.
C6_MoveEmptiesSource ==
    last.op \in {"MoveConstruct", "MoveAssign"} /\ last.v # last.o =>
        /\ Size(last.o) = 0
        /\ Capacity(last.o) = 0
        /\ data_[last.o].buffer_ = NullBuffer
        /\ Size(last.v) = Pre(last.o).size
        /\ Capacity(last.v) = Pre(last.o).data.capacity_
        /\ Elems(last.v) = Pre(last.o).elems

\* C7: a move assignment to a target holding m > 0 elements destroys each
\* of them, and no call releases a block that holds a live object.
C7_MoveAssignReleasesTarget ==
    /\ last.op = "MoveAssign" /\ last.v # last.o /\ PreSize > 0 => last.destroyed = PreSize
    /\ last.leaked = 0

\* C8: an Emplace/Insert of x at index i in which nothing throws turns the
\* sequence s of length n into s[0..i) ++ [x] ++ s[i..n), with size n + 1,
\* in place and with growth, and returns the position of index i, which
\* holds x.
C8_InsertShiftsRight ==
    last.op = "Emplace" /\ ~last.fault =>
        /\ Size(last.v) = PreSize + 1
        /\ Elems(last.v) = InsertAt(PreElems, last.index, last.val)
        /\ last.ret = last.index
        /\ Elems(last.v)[last.ret + 1] = last.val

C8_Witness ==
    /\ last.op = "Emplace" /\ ~last.fault
    /\ PreSize = 3 /\ PreCapacity = 4 /\ last.index = 1
    /\ PreElems[2] # PreElems[3] /\ last.val # PreElems[2]

\* C9: an Erase at index i < n in which nothing throws turns the sequence s
\* of length n into s[0..i) ++ s[i+1..n), with size n - 1 and the capacity
\* unchanged, destroys one object, and returns the position of index i.
C9_EraseShiftsLeft ==
    last.op = "Erase" /\ ~last.fault /\ last.index < PreSize =>
        /\ Size(last.v) = PreSize - 1
        /\ Elems(last.v) = RemoveAt(PreElems, last.index)
        /\ Capacity(last.v) = PreCapacity
        /\ last.destroyed = 1
        /\ last.ret = last.index

C9_Witness ==
    /\ last.op = "Erase" /\ ~last.fault
    /\ PreSize = 3 /\ last.index = 0 /\ PreElems[2] # PreElems[3]

\* C10: Insert(i, x) and then Erase at the position Insert returned leave
\* the sequence and the size the container had before, with growth or not.
C10_InsertEraseRoundTrip ==
    last.op = "InsertErase" =>
        /\ Size(last.v) = PreSize
        /\ Elems(last.v) = PreElems

C10_Witness ==
    /\ last.op = "InsertErase"
    /\ PreSize = 2 /\ PreCapacity = 2 /\ last.index = 1 /\ Capacity(last.v) = 4
    /\ PreElems[1] # PreElems[2]

\* The slots of the block of v, from index from on, hold no object.
RawFrom(v, from) ==
    \A i \in from..(Capacity(v) - 1) : ~SlotLive(heap, data_[v].buffer_, i)

Defaults(n) == [i \in 1..n |-> DefaultValue]

\* C11: Reserve(k) with k <= Capacity() leaves the capacity, the size, the
\* block and every element as they were, destroys no object and constructs
\* none (the slots from Size() on stay raw, no object is overwritten).
C11_ReserveWithinCapacityNoOp ==
    last.op = "Reserve" /\ last.index <= PreCapacity =>
        /\ ~last.threw
        /\ data_[last.v] = Pre(last.v).data
        /\ Size(last.v) = PreSize
        /\ Elems(last.v) = PreElems
        /\ RawFrom(last.v, PreSize)
        /\ last.destroyed = 0 /\ last.leaked = 0

C11_Witness ==
    /\ last.op = "Reserve" /\ last.index = 1 /\ PreCapacity = 4 /\ PreSize = 3
    /\ PreElems[1] # PreElems[2]

\* C12: a Reserve(k) with k > Capacity() in which nothing throws leaves
\* capacity k, the size and the element sequence as they were, and destroys
\* each object of the old block once: the block holds no object when it is
\* released.
C12_ReserveGrowsExactly ==
    last.op = "Reserve" /\ last.index > PreCapacity /\ ~last.fault =>
        /\ Capacity(last.v) = last.index
        /\ Size(last.v) = PreSize
        /\ Elems(last.v) = PreElems
        /\ RawFrom(last.v, PreSize)
        /\ last.destroyed = PreSize /\ last.leaked = 0

C12_Witness ==
    /\ last.op = "Reserve" /\ ~last.fault
    /\ PreCapacity = 2 /\ PreSize = 2 /\ last.index = 3 /\ Capacity(last.v) = 3
    /\ PreElems[1] # PreElems[2]

\* C15: Resize(m) on a container holding the sequence s of length n, nothing
\* throwing: m = n changes nothing; m < n leaves s[0..m), destroys the n - m
\* trailing objects and keeps the block and the capacity; m > n leaves s
\* followed by m - n default values, with capacity m when m exceeded the
\* capacity and the capacity unchanged otherwise.
C15_Resize ==
    last.op = "Resize" /\ ~last.fault =>
        /\ Size(last.v) = last.index
        /\ RawFrom(last.v, last.index)
        /\ last.index = PreSize =>
               /\ data_[last.v] = Pre(last.v).data /\ Elems(last.v) = PreElems
               /\ last.destroyed = 0
        /\ last.index < PreSize =>
               /\ data_[last.v] = Pre(last.v).data
               /\ Elems(last.v) = SubSeq(PreElems, 1, last.index)
               /\ last.destroyed = PreSize - last.index
        /\ last.index > PreSize =>
               /\ Elems(last.v) = PreElems \o Defaults(last.index - PreSize)
               /\ Capacity(last.v) = (IF last.index > PreCapacity THEN last.index
                                      ELSE PreCapacity)
               /\ last.index <= PreCapacity => data_[last.v] = Pre(last.v).data

C15_Witness ==
    /\ last.op = "Resize" /\ ~last.fault
    /\ PreSize = 2 /\ PreCapacity = 2 /\ last.index = 4 /\ Capacity(last.v) = 4
    /\ PreElems[1] # DefaultValue

\* C19: Erase at the end position of a container of size n > 0 destroys
\* the element at index n - 1, leaves size n - 1 and the elements [0, n - 1)
\* as they were, and returns the new end position, index n - 1.
C19_EraseAtEndPops ==
    last.op = "Erase" /\ last.index = PreSize =>
        /\ ~last.threw
        /\ Size(last.v) = PreSize - 1
        /\ Elems(last.v) = SubSeq(PreElems, 1, PreSize - 1)
        /\ data_[last.v] = Pre(last.v).data
        /\ RawFrom(last.v, PreSize - 1)
        /\ last.destroyed = 1
        /\ last.ret = PreSize - 1

C19_Witness ==
    /\ last.op = "Erase" /\ last.index = PreSize /\ PreSize = 3
    /\ PreElems[2] # PreElems[3]

\* C16: when the copy of an existing element throws inside a PushBack or
\* EmplaceBack with growth, no live object is lost (the new element at
\* index size of the new block is destroyed before the block is released)
\* and the container has the size, the block, the capacity and the elements
\* it had.
C16_AppendTransferFaultNoLeak ==
    /\ last.op \in {"PushBack", "EmplaceBack"}
    /\ PreSize = PreCapacity
    /\ last.stage = "transfer"
    => /\ last.leaked = 0
       /\ data_[last.v] = Pre(last.v).data
       /\ Size(last.v) = PreSize
       /\ Elems(last.v) = PreElems

\* C17: when an in-place Emplace (size < capacity, position before the end)
\* throws (at the temporary, at the construction of slot size from the last
\* element, at an assignment of the shift or at the assignment to the
\* target slot), exactly the slots [0, size) of the container are live and
\* no object is lost.
C17_EmplaceInPlaceBasicGuarantee ==
    /\ last.op = "Emplace"
    /\ PreSize < PreCapacity /\ last.index < PreSize
    /\ last.threw
    => Valid(last.v) /\ last.leaked = 0

\* C18: under the copy policy, a Reserve(k) with k > Capacity() in which
\* the allocation or the copy of an element throws, throws to its caller
\* and leaves the size, the block, the capacity and the elements as they
\* were; no original is destroyed, no object is lost, and the new block is
\* released.
C18_ReserveStrongGuarantee ==
    /\ last.op = "Reserve" /\ last.index > PreCapacity
    /\ ~nothrow_move /\ last.fault
    => /\ last.threw
       /\ data_[last.v] = Pre(last.v).data
       /\ Size(last.v) = PreSize
       /\ Elems(last.v) = PreElems
       /\ last.destroyed = 0 /\ last.leaked = 0
       /\ \A b \in BlockIds : b # data_[last.v].buffer_ => heap[b] = <<>>

C18_Witness ==
    /\ last.op = "Reserve" /\ last.stage = "transfer" /\ ~nothrow_move
    /\ PreSize = 2 /\ PreCapacity = 2 /\ last.index = 4
    /\ PreElems[1] # PreElems[2]

\* C20: a PushBack(const T&) or Insert(pos, const T&) whose argument refers
\* to element j of the same container inserts the value element j had
\* before the call: appended with spare capacity or with growth, inserted
\* in place or with growth.
C20_SelfAliasedInsert ==
    last.op \in {"PushBackSelf", "InsertSelf"} =>
        /\ Size(last.v) = PreSize + 1
        /\ Elems(last.v) = InsertAt(PreElems, last.index, PreElems[RefIndex(last.val) + 1])

C20_Witness ==
    /\ last.op = "InsertSelf"
    /\ PreSize = 3 /\ PreCapacity = 4 /\ last.index = 0 /\ RefIndex(last.val) = 2
    /\ PreElems[3] # PreElems[2]

\* Containers other than the one the last call was made on are as they
\* were before it.
OthersUnchanged ==
    \A w \in Vecs \ {last.v} :
        /\ data_[w] = Pre(w).data
        /\ Size(w) = Pre(w).size
        /\ Elems(w) = Pre(w).elems

\* No block belongs to two containers.
OwnBlocks ==
    \A v, w \in Vecs :
        v # w /\ data_[v].buffer_ # NullBuffer => data_[v].buffer_ # data_[w].buffer_

\* C13: a copy construction from C in which nothing throws gives a
\* container with size C.Size(), capacity C.Size() and C's elements, in a
\* block of its own; every later call on either container (PushBack,
\* PopBack, Erase, copy assignment, destruction) leaves the size, the
\* block, the capacity and the elements of the other as they were.
C13_CopyIsIndependent ==
    /\ last.op = "CopyConstruct" /\ ~last.fault =>
           /\ Size(last.v) = Pre(last.o).size
           /\ Capacity(last.v) = Pre(last.o).size
           /\ Elems(last.v) = Pre(last.o).elems
    /\ OthersUnchanged
    /\ OwnBlocks

C13_Witness ==
    /\ last.op = "PushBack" /\ last.v = "b" /\ alive["a"]
    /\ Pre("b").data.capacity_ = 1 /\ Pre("b").elems = Elems("a")
    /\ Size("a") = 1 /\ Capacity("a") = 2 /\ Capacity("b") = 2
    /\ Elems("b") = Elems("a") \o <<last.val>> /\ last.val # Elems("a")[1]

\* C14: after a copy assignment from a different container in which
\* nothing throws, the target has the other's size and elements and the
\* other is unchanged; the capacity is the other's size when that exceeded
\* the target's capacity, and block and capacity are kept otherwise; the
\* target's slots from its size on are raw, each element in excess was
\* destroyed once and none was lost.  A copy assignment of a container to
\* itself changes nothing.
C14_CopyAssign ==
    last.op = "CopyAssign" /\ ~last.fault =>
        IF last.v # last.o
        THEN /\ Size(last.v) = Pre(last.o).size
             /\ Elems(last.v) = Pre(last.o).elems
             /\ OthersUnchanged
             /\ IF Pre(last.o).size > PreCapacity
                THEN /\ Capacity(last.v) = Pre(last.o).size
                     /\ last.destroyed = PreSize
                ELSE /\ data_[last.v] = Pre(last.v).data
                     /\ last.destroyed = (IF PreSize > Pre(last.o).size
                                          THEN PreSize - Pre(last.o).size ELSE 0)
             /\ RawFrom(last.v, Size(last.v))
             /\ last.leaked = 0
        ELSE /\ data_[last.v] = Pre(last.v).data
             /\ Size(last.v) = PreSize
             /\ Elems(last.v) = PreElems
             /\ last.destroyed = 0

C14_Witness ==
    /\ last.op = "CopyAssign" /\ ~last.fault /\ last.v # last.o
    /\ PreSize = 3 /\ PreCapacity = 4 /\ Pre(last.o).size = 1
    /\ PreElems[1] # Pre(last.o).elems[1]

====
